---- MODULE Spec2Model ----
(***************************************************************************)
(* Smart Grocery Basket frontend: the barcode-scan-to-basket pipeline.     *)
(*                                                                         *)
(*   - ApiClient.makeRequest (services/api.ts): fetch with timeout race,   *)
(*     bounded retries and linear backoff.                                 *)
(*   - useCart (hooks/useCart.ts) on top of AuthProvider                   *)
(*     (contexts/AuthContext.tsx), and the GroceryBasket component with    *)
(*     its own item list (components/GroceryBasket.tsx).                   *)
(*   - QRScanner (components/QRScanner.tsx): camera lifecycle, frame       *)
(*     sampling loop, recently-seen set, product resolution.               *)
(*                                                                         *)
(* Every asynchronous function is cut at its awaits: one action is the     *)
(* code that runs between two suspension points of the event loop.         *)
(***************************************************************************)
EXTENDS Integers, Sequences, FiniteSets, TLC

VARIABLES
    \* ---- ApiClient.makeRequest, one call observed on its own
    call,          \* the call: phase, attempt number, error it ended with
    fetchCount,    \* fetch() invocations made for the call
    sleepLog,      \* backoff sleeps taken, in order (milliseconds)
    lookup,        \* a searchByBarcode call on its own
    hist,          \* what each fetch attempt ended with, in order
    \* ---- AuthProvider
    storedToken,   \* localStorage holds an authToken when the app loads
    authInit,      \* the initializeSession effect has run
    authToken,     \* AuthProvider state
    sessionId,     \* AuthProvider state
    authApi,       \* one request through AuthApiClient and its interceptor chain
    \* ---- useCart, one state per component that calls the hook
    cartItems,     \* instance -> list of line items
    fetchCart,     \* instance -> the getCart call of the sessionId effect
    syncs,         \* remote-sync calls awaited by cart operations
    lastOp,        \* the last thing that wrote to a cartItems state
    settled,       \* how the last remote-sync call of a cart operation ended
    adds,          \* basket -> add calls made per product id (add-only runs)
    \* ---- GroceryBasket with its own item list
    items,         \* the component's line items
    oldItems,      \* the line items of the earlier GroceryBasket component
    \* ---- QRScanner
    version,       \* which QRScanner is mounted: useCart-based or onScan-based
    window,        \* browser capabilities: BarcodeDetector, ImageCapture
    mounted,       \* "no" before the mount effect, "yes", "gone" once unmounted
    detector,      \* barcodeDetectorRef.current is set
    scanningRef,   \* scanningRef.current
    isScanning,    \* component state
    isLoading,     \* component state
    status,        \* status and statusType
    scannedData,   \* component state
    srcObject,     \* videoRef.current.srcObject: 0 for null, else the stream
    liveTracks,    \* streams whose tracks have not been stopped
    scannedProducts, \* scannedProductsRef.current
    timers,        \* barcode -> pending setTimeout callbacks that delete it
    runs,          \* startScanner call -> where it, then its scan loop, stands
    resolutions,   \* barcode -> processProductScan calls started
    expiries       \* barcode -> deletion timers fired

httpVars == <<call, fetchCount, sleepLog, hist, lookup>>
authVars == <<storedToken, authInit, authToken, sessionId, authApi>>
cartVars == <<cartItems, fetchCart, syncs, lastOp, settled>>

basketVars == <<items, oldItems>>

scanVars ==
    <<version, window, mounted, detector, scanningRef, isScanning, isLoading,
      status, scannedData, srcObject, liveTracks, scannedProducts, timers, runs,
      resolutions, expiries>>

vars == <<httpVars, authVars, cartVars, adds, basketVars, scanVars>>

\* What the steps of one component leave alone.
notHttp == <<authVars, cartVars, adds, basketVars, scanVars>>
notCart == <<httpVars, basketVars, scanVars>>
notBasket == <<httpVars, authVars, cartVars, scanVars>>

NULL == "null"

\* ------------------------------------------------------------------------
\* API_CONFIG
\* ------------------------------------------------------------------------
RETRY_ATTEMPTS == 3
RETRY_DELAY == 1000

\* ------------------------------------------------------------------------
\* What one fetch attempt can end with: the timeout winning the race, fetch
\* rejecting (network failure), or a response with a status and a body that
\* parses as JSON or does not.
\* ------------------------------------------------------------------------
Statuses == {200, 304, 400, 404, 500, 503}

FetchResults ==
    {[kind |-> "timeout", status |-> 0, json |-> FALSE],
     [kind |-> "network", status |-> 0, json |-> FALSE]}
    \cup [kind : {"response"}, status : Statuses, json : BOOLEAN]

\* response.ok
ResponseOk(res) == res.kind = "response" /\ res.status >= 200 /\ res.status <= 299

\* The attempt returns data: an ok response whose body parses.
Succeeds(res) == ResponseOk(res) /\ res.json

\* The error the try block throws for a failed attempt.  Only the error built
\* for a non-ok response carries a numeric status; the timeout Error, fetch's
\* TypeError and response.json()'s SyntaxError carry none.
ThrownError(res) ==
    IF res.kind = "response" /\ ~ResponseOk(res)
    THEN [hasStatus |-> TRUE, status |-> res.status]
    ELSE [hasStatus |-> FALSE, status |-> 0]

NoError == [hasStatus |-> FALSE, status |-> 0]

\* shouldRetry with attempt <= retryAttempts.
ShouldRetry_OffByOne(attempt, err) ==
    attempt <= RETRY_ATTEMPTS /\ (~err.hasStatus \/ err.status >= 500)

\* shouldRetry with the status test dropped.
ShouldRetry_AnyError(attempt, err) ==
    attempt < RETRY_ATTEMPTS

\* shouldRetry
ShouldRetry(attempt, err) ==
    attempt < RETRY_ATTEMPTS /\ (~err.hasStatus \/ err.status >= 500)

\* A request as makeRequest drives it.
NewRequest == [phase |-> "fetching", attempt |-> 1, err |-> NoError]

IdleRequest == [phase |-> "idle", attempt |-> 0, err |-> NoError]

\* The fetch/timeout race of the current attempt settles with res.
Settle(r, res) ==
    IF Succeeds(res)
    THEN [r EXCEPT !.phase = "resolved"]
    ELSE IF ShouldRetry(r.attempt, ThrownError(res))
         THEN [r EXCEPT !.phase = "sleeping", !.err = ThrownError(res)]
         ELSE [r EXCEPT !.phase = "rejected", !.err = ThrownError(res)]

\* sleep(retryDelay * attempt) is over: makeRequest(endpoint, options, attempt + 1).
Wake(r) == [r EXCEPT !.phase = "fetching", !.attempt = r.attempt + 1, !.err = NoError]

BackoffDelay(r) == RETRY_DELAY * r.attempt

\* ------------------------------------------------------------------------
\* One makeRequest call on its own
\* ------------------------------------------------------------------------
HttpInit ==
    /\ call = IdleRequest
    /\ fetchCount = 0
    /\ sleepLog = <<>>
    /\ hist = <<>>

HttpStart ==
    /\ call.phase = "idle"
    /\ call' = NewRequest
    /\ fetchCount' = 1
    /\ UNCHANGED <<sleepLog, hist, lookup, notHttp>>

HttpSettle(res) ==
    /\ call.phase = "fetching"
    /\ call' = Settle(call, res)
    /\ hist' = Append(hist, res)
    /\ sleepLog' = IF Settle(call, res).phase = "sleeping"
                   THEN Append(sleepLog, BackoffDelay(call))
                   ELSE sleepLog
    /\ UNCHANGED <<fetchCount, lookup, notHttp>>

HttpWake ==
    /\ call.phase = "sleeping"
    /\ call' = Wake(call)
    /\ fetchCount' = fetchCount + 1
    /\ UNCHANGED <<sleepLog, hist, lookup, notHttp>>

HttpNext ==
    \/ HttpStart
    \/ \E res \in FetchResults : HttpSettle(res)
    \/ HttpWake

\* ------------------------------------------------------------------------
\* Products and line items
\* ------------------------------------------------------------------------
MaxQty == 2
MaxSyncs == 1
MaxAdds == 2

ProductIds == {"P1", "P2"}

\* BasketItem, as far as the basket operations read it.
\* product.mrpPrice of the two products, in hundredths of a rupee.
MrpPrice == [p \in ProductIds |-> IF p = "P1" THEN 250 ELSE 1999]

\* A BasketItem as addToCart / handleProductScanned build it: price is the
\* product's mrpPrice (name, image, category play no part in any operation).
LineItem(id, q) == [id |-> id, price |-> MrpPrice[id], quantity |-> q]

HasItem(list, id) == \E k \in 1..Len(list) : list[k].id = id

\* Index of the first line item with the id: find / findIndex.
FirstIndex(list, id) ==
    CHOOSE k \in 1..Len(list) : list[k].id = id /\ \A j \in 1..(k - 1) : list[j].id # id

\* The quantity shown for id: that of its line item, 0 when absent.
Qty(list, id) == IF HasItem(list, id) THEN list[FirstIndex(list, id)].quantity ELSE 0

UniqueIds(list) ==
    \A j, k \in 1..Len(list) : list[j].id = list[k].id => j = k

\* prevItems.filter(item => item.id !== productId)
FilterOut(list, id) == SelectSeq(list, LAMBDA it : it.id # id)

\* prevItems.map(item => item.id === productId ? { ...item, quantity } : item)
MapQuantity(list, id, q) ==
    [k \in 1..Len(list) |->
        IF list[k].id = id THEN [list[k] EXCEPT !.quantity = q] ELSE list[k]]

\* The updater addToCart passes to setCartItems.
AddOrIncrement(list, id) ==
    IF HasItem(list, id)
    THEN [k \in 1..Len(list) |->
            IF list[k].id = id
            THEN [list[k] EXCEPT !.quantity = list[k].quantity + 1]
            ELSE list[k]]
    ELSE Append(list, LineItem(id, 1))

\* ------------------------------------------------------------------------
\* AuthApiClient: the response interceptor
\* ------------------------------------------------------------------------
\* Bound on the refresh requests of one chain.
MaxRefreshes == 4

\* What the backend can answer a request with.
AuthAnswers == {200, 401, 500}

\* One request made through this.client.  refreshToken: localStorage holds a
\* refreshToken; pending: the request awaiting its answer (the caller's, a
\* POST /api/auth/refresh, or a request re-sent by the interceptor); level:
\* the interceptor calls that await a refresh, or, for a re-sent request, the
\* one that re-sent it (the first is the one of the caller's request, the
\* others are those of refresh requests); refreshes / resends: the refresh
\* requests sent and the re-sends of the caller's request; answers: the
\* statuses received; result: how the caller's promise settled.
NoAuthCall(stored) ==
    [refreshToken |-> stored, pending |-> "none", level |-> 0, refreshes |-> 0,
     resends |-> 0, answers |-> <<>>, result |-> "none"]

AuthApiParked == authApi = NoAuthCall(FALSE)

\* return Promise.reject(error) / return response, to the caller.
Settled(a, code) ==
    [a EXCEPT !.pending = "none", !.level = 0,
              !.result = IF code = 200 THEN "resolved" ELSE "rejected"]

\* The awaited refresh rejects: catch (refreshError) { this.clearAuth(); return
\* Promise.reject(refreshError) }, in every interceptor call that awaits.
RefreshFailed(a) ==
    [a EXCEPT !.refreshToken = FALSE, !.pending = "none", !.level = 0,
              !.result = "rejected"]

\* originalRequest._retry = true; the refresh token is there:
\* await this.client.post('/api/auth/refresh', { refreshToken }).
\* The post builds a new config, which carries no _retry.
AwaitRefresh(a) ==
    [a EXCEPT !.pending = "refresh", !.level = @ + 1, !.refreshes = @ + 1]

\* The refresh awaited by interceptor call a.level is fulfilled:
\* setAccessToken, then return this.client(originalRequest), the request that
\* call intercepted, with _retry set.
Resend(a) ==
    [a EXCEPT !.pending = "resend",
              !.resends = IF a.level = 1 THEN @ + 1 ELSE @,
              !.refreshes = IF a.level > 1 THEN @ + 1 ELSE @]

\* The pending request is answered with status code: the response interceptor.
Intercepted(a, code) ==
    CASE a.pending = "original" ->
            IF code = 401 /\ a.refreshToken THEN AwaitRefresh(a) ELSE Settled(a, code)
      [] a.pending = "refresh" ->
            IF code = 401 /\ a.refreshToken THEN AwaitRefresh(a)
            ELSE IF code = 200 THEN Resend(a)
            ELSE RefreshFailed(a)
      [] a.pending = "resend" ->
            IF a.level = 1 THEN Settled(a, code)
            ELSE IF code = 200 THEN Resend([a EXCEPT !.level = @ - 1])
            ELSE RefreshFailed(a)

\* A method of AuthApiClient sends its request.
AuthRequest ==
    /\ authApi.pending = "none" /\ authApi.result = "none"
    /\ authApi' = [authApi EXCEPT !.pending = "original"]
    /\ UNCHANGED <<storedToken, authInit, authToken, sessionId>>
    /\ UNCHANGED <<httpVars, cartVars, adds, basketVars, scanVars>>

\* The backend answers the pending request.
AuthAnswer(code) ==
    /\ authApi.pending # "none"
    /\ Intercepted(authApi, code).refreshes <= MaxRefreshes
    /\ authApi' = [Intercepted(authApi, code) EXCEPT
                      !.answers = Append(authApi.answers, code)]
    /\ UNCHANGED <<storedToken, authInit, authToken, sessionId>>
    /\ UNCHANGED <<httpVars, cartVars, adds, basketVars, scanVars>>

\* ------------------------------------------------------------------------
\* AuthProvider
\* ------------------------------------------------------------------------
\* value.sessionId: null while a token is held.
ContextSessionId == IF authToken # NULL THEN NULL ELSE sessionId

SessionInit ==
    /\ storedToken \in BOOLEAN
    /\ authInit = FALSE
    /\ authToken = NULL
    /\ sessionId = NULL

AuthInit == SessionInit /\ AuthApiParked

\* ------------------------------------------------------------------------
\* useCart
\* ------------------------------------------------------------------------
\* QRScanner and the useCart-based GroceryBasket each call the hook.
CartInstances == {"scanner", "basket"}

Baskets == CartInstances \cup {"local"}

\* What a getCart response body can carry as data.
ServerCarts ==
    {<<>>, <<LineItem("P1", 1)>>, <<LineItem("P2", 2), LineItem("P1", 1)>>}

\* How an awaited cartService call ends, makeRequest's attempts behind it: it
\* resolves with a body that has data, resolves with one that has none, or
\* rejects with the last attempt's error.
CallOutcomes == {"data", "nodata", "rejected"}

\* No remote-sync call has ended yet.
NoSync == [op |-> "none", promise |-> "pending", logged |-> FALSE]

NoOp == [op |-> "none", inst |-> NULL, id |-> NULL, q |-> 0]

CartInit ==
    /\ cartItems = [i \in CartInstances |-> <<>>]
    /\ fetchCart = [i \in CartInstances |-> "idle"]
    /\ syncs = <<>>
    /\ lastOp = NoOp
    /\ settled = NoSync
    /\ adds = [b \in Baskets |-> [n |-> [p \in ProductIds |-> 0], loaded |-> FALSE]]

\* The initializeSession effect of AuthProvider, which runs before any event
\* handler; when it sets a guest session id, the [sessionId] effect of every
\* mounted useCart calls fetchCart.
InitializeSession ==
    /\ ~authInit
    /\ authInit' = TRUE
    /\ IF storedToken
       THEN /\ authToken' = "token"
            /\ UNCHANGED <<sessionId, fetchCart>>
       ELSE /\ sessionId' = "guest"
            /\ fetchCart' = [i \in CartInstances |-> "pending"]
            /\ UNCHANGED authToken
    /\ UNCHANGED <<storedToken, authApi, cartItems, syncs, lastOp, settled, adds, notCart>>

\* fetchCart's await of cartService.getCart(sessionId) ends.
FetchCartStep(i, outcome, data) ==
    /\ fetchCart[i] = "pending"
    /\ fetchCart' = [fetchCart EXCEPT ![i] = "idle"]
    /\ IF outcome = "data"
       THEN /\ cartItems' = [cartItems EXCEPT ![i] = data]
            /\ lastOp' = [op |-> "fetched", inst |-> i, id |-> NULL, q |-> 0]
       ELSE UNCHANGED <<cartItems, lastOp>>
    /\ UNCHANGED <<authVars, syncs, settled, notCart>>

FetchCartSettle(i, outcome, data) == FetchCartStep(i, outcome, data) /\ UNCHANGED adds

\* The guard every useCart operation opens with: if (!sessionId) return.
HasSession == ContextSessionId # NULL

\* addToCart(product), up to its await of cartService.addToCart.
AddToCartStep(i, p) ==
    /\ authInit
    /\ IF HasSession
       THEN /\ Len(syncs) < MaxSyncs
            /\ Qty(cartItems[i], p) < MaxQty
            /\ cartItems' = [cartItems EXCEPT ![i] = AddOrIncrement(@, p)]
            /\ syncs' = Append(syncs, "add")
       ELSE UNCHANGED <<cartItems, syncs>>
    /\ lastOp' = [op |-> "add", inst |-> i, id |-> p, q |-> 1]
    /\ UNCHANGED <<authVars, fetchCart, settled>>

AddToCart(i, p) == AddToCartStep(i, p) /\ UNCHANGED <<adds, notCart>>

\* removeFromCart(productId), up to its await of cartService.removeFromCart.
RemoveFromCart(i, id) ==
    /\ authInit
    /\ IF HasSession
       THEN /\ Len(syncs) < MaxSyncs
            /\ cartItems' = [cartItems EXCEPT ![i] = FilterOut(@, id)]
            /\ syncs' = Append(syncs, "remove")
       ELSE UNCHANGED <<cartItems, syncs>>
    /\ lastOp' = [op |-> "remove", inst |-> i, id |-> id, q |-> 0]
    /\ UNCHANGED <<authVars, fetchCart, settled, adds, notCart>>

\* updateQuantity with no removal.
UpdatedItems_NoRemoval(list, id, q) == MapQuantity(list, id, q)

\* updateQuantity taking its quantity as a change to the current one.
UpdatedItems_Delta(list, id, q) ==
    IF q <= 0 THEN FilterOut(list, id) ELSE MapQuantity(list, id, Qty(list, id) + q)

\* What updateQuantity leaves in cartItems when a session is present.
UpdatedItems(list, id, q) ==
    IF q <= 0 THEN FilterOut(list, id) ELSE MapQuantity(list, id, q)

\* The quantities updateQuantity is called with.
QuantityInputs == (0 - 1)..MaxQty

\* updateQuantity(productId, quantity), up to its await; for quantity <= 0 that
\* is the await inside the removeFromCart it calls.
UpdateQuantity(i, id, q) ==
    /\ authInit
    /\ IF HasSession
       THEN /\ Len(syncs) < MaxSyncs
            /\ cartItems' = [cartItems EXCEPT ![i] = UpdatedItems(@, id, q)]
            /\ syncs' = Append(syncs, IF q <= 0 THEN "remove" ELSE "update")
       ELSE UNCHANGED <<cartItems, syncs>>
    /\ lastOp' = [op |-> "update", inst |-> i, id |-> id, q |-> q]
    /\ UNCHANGED <<authVars, fetchCart, settled, adds, notCart>>

\* Bounds of the quantity buttons: sync calls pending at once, and quantity.
MaxClickSyncs == 2
MaxClickQty == 3

\* The buttons passing the quantity of the first render.
ClickedQuantity_FirstRender(list, id, change) == 1 + change

\* The quantity a - or + button of a rendered cart line passes to
\* updateQuantity: item.quantity - 1 or item.quantity + 1.  The render its
\* closure comes from is the one React committed at the end of the previous
\* click's handling, so item.quantity is the quantity in cartItems.
ClickedQuantity(list, id, change) == Qty(list, id) + change

\* A click on the - or + button of line item id: updateQuantity up to its await.
QuantityClick(i, id, change) ==
    /\ authInit
    /\ HasItem(cartItems[i], id)
    /\ LET q == ClickedQuantity(cartItems[i], id, change)
       IN  /\ q <= MaxClickQty
           /\ IF HasSession
              THEN /\ Len(syncs) < MaxClickSyncs
                   /\ cartItems' = [cartItems EXCEPT ![i] = UpdatedItems(@, id, q)]
                   /\ syncs' = Append(syncs, IF q <= 0 THEN "remove" ELSE "update")
              ELSE UNCHANGED <<cartItems, syncs>>
           /\ lastOp' = [op |-> "update", inst |-> i, id |-> id, q |-> q]
    /\ UNCHANGED <<authVars, fetchCart, settled, adds, notCart>>

\* clearCart(), up to its await of cartService.clearCart.
ClearCart(i) ==
    /\ authInit
    /\ IF HasSession
       THEN /\ Len(syncs) < MaxSyncs
            /\ cartItems' = [cartItems EXCEPT ![i] = <<>>]
            /\ syncs' = Append(syncs, "clear")
       ELSE UNCHANGED <<cartItems, syncs>>
    /\ lastOp' = [op |-> "clear", inst |-> i, id |-> NULL, q |-> 0]
    /\ UNCHANGED <<authVars, fetchCart, settled, adds, notCart>>

RemoveAt(seq, k) == [j \in 1..(Len(seq) - 1) |-> IF j < k THEN seq[j] ELSE seq[j + 1]]

\* The await of a remote-sync call ends.  A rejection is caught and logged; the
\* operation returns either way.
\* The try / catch around the awaited call with the catch rethrowing.
SyncCatch_Rethrow(op, outcome) ==
    [op |-> op,
     promise |-> IF outcome = "rejected" THEN "rejected" ELSE "fulfilled",
     logged |-> outcome = "rejected"]

\* try { await cartService.<op>(...) } catch (error) { console.error(...) }:
\* the operation's promise and whether the catch logged.
SyncCatch(op, outcome) ==
    [op |-> op, promise |-> "fulfilled", logged |-> outcome = "rejected"]

SyncSettle(k, outcome) ==
    /\ k \in 1..Len(syncs)
    /\ syncs' = RemoveAt(syncs, k)
    /\ settled' = SyncCatch(syncs[k], outcome)
    /\ UNCHANGED <<authVars, cartItems, fetchCart, lastOp, adds, notCart>>

\* ------------------------------------------------------------------------
\* One useCart.addToCart call with the makeRequest of its POST
\* ------------------------------------------------------------------------
\* What an attempt of the POST can come to: how the fetch / timeout race
\* settles, and whether the backend applied the add.  An answered add was
\* applied when the answer is ok; the timeout promise winning the race aborts
\* nothing (fetch is given no signal), so the request it gave up on may still
\* be applied.
PostAttempts ==
    {[res |-> res, applied |-> a] : res \in FetchResults, a \in BOOLEAN} \ 
    {at \in [res : FetchResults, applied : BOOLEAN] :
        \/ at.res.kind = "response" /\ at.applied # ResponseOk(at.res)
        \/ at.res.kind = "network" /\ at.applied}

\* addToCart(product): the optimistic update, then cartService.addToCart ->
\* post -> makeRequest up to its first fetch.
AddToCartPost(p) ==
    /\ call.phase = "idle"
    /\ AddToCartStep("basket", p)
    /\ IF HasSession
       THEN call' = NewRequest /\ fetchCount' = 1
       ELSE UNCHANGED <<call, fetchCount>>
    /\ UNCHANGED <<sleepLog, hist, lookup, adds, basketVars, scanVars>>

\* An attempt of the POST settles: makeRequest sleeps for a retry, or returns
\* or throws into addToCart's try / catch.
PostSettle(at) ==
    /\ call.phase = "fetching"
    /\ call' = Settle(call, at.res)
    /\ hist' = Append(hist, at)
    /\ IF Settle(call, at.res).phase = "sleeping"
       THEN /\ sleepLog' = Append(sleepLog, BackoffDelay(call))
            /\ UNCHANGED <<syncs, settled>>
       ELSE /\ syncs' = RemoveAt(syncs, 1)
            /\ settled' = SyncCatch("add", IF Succeeds(at.res) THEN "data" ELSE "rejected")
            /\ UNCHANGED sleepLog
    /\ UNCHANGED <<fetchCount, lookup, authVars, cartItems, fetchCart, lastOp, adds,
                   basketVars, scanVars>>

\* The backoff sleep is over: the POST is sent again.
PostWake ==
    /\ call.phase = "sleeping"
    /\ call' = Wake(call)
    /\ fetchCount' = fetchCount + 1
    /\ UNCHANGED <<sleepLog, hist, lookup, notHttp>>

\* By how much the backend has raised the product's quantity.
RemoteRaise == Cardinality({k \in 1..Len(hist) : hist[k].applied})

\* ------------------------------------------------------------------------
\* GroceryBasket with its own item list
\* ------------------------------------------------------------------------
BasketInit == items = <<>> /\ oldItems = <<>>

\* The updater handleProductScanned passes to setItems.
ScannedInto(list, id) ==
    IF HasItem(list, id)
    THEN [list EXCEPT ![FirstIndex(list, id)].quantity = @ + 1]
    ELSE Append(list, LineItem(id, 1))

HandleProductScannedStep(p) ==
    /\ Qty(items, p) < MaxQty
    /\ items' = ScannedInto(items, p)
    /\ UNCHANGED oldItems

HandleProductScanned(p) == HandleProductScannedStep(p) /\ UNCHANGED <<adds, notBasket>>

Max0(n) == IF n > 0 THEN n ELSE 0

\* The updater handleUpdateQuantity passes to setItems: Math.max(0, quantity +
\* change) on the matching items, then the items left at 0 filtered out.
ChangedBy(list, id, change) ==
    SelectSeq([k \in 1..Len(list) |->
                  IF list[k].id = id
                  THEN [list[k] EXCEPT !.quantity = Max0(@ + change)]
                  ELSE list[k]],
              LAMBDA it : it.quantity > 0)

\* The - and + buttons of a line item call handleUpdateQuantity with -1 and 1.
QuantityChanges == {0 - 1, 1}

HandleUpdateQuantityUpTo(id, change, cap) ==
    /\ Qty(items, id) + change <= cap
    /\ items' = ChangedBy(items, id, change)
    /\ UNCHANGED <<oldItems, adds, notBasket>>

HandleUpdateQuantity(id, change) == HandleUpdateQuantityUpTo(id, change, MaxQty)

\* A click on the - or + button of a rendered line item.
LocalQuantityClick(id, change) ==
    HasItem(items, id) /\ HandleUpdateQuantityUpTo(id, change, MaxClickQty)

HandleClearBasket ==
    /\ items' = <<>>
    /\ UNCHANGED <<oldItems, adds, notBasket>>

\* ------------------------------------------------------------------------
\* The earlier GroceryBasket component (absolute updateQuantity)
\* ------------------------------------------------------------------------
\* handleProductScanned: find, then map over the items with the id.
OldProductScanned(p) ==
    /\ Qty(oldItems, p) < MaxQty
    /\ oldItems' = AddOrIncrement(oldItems, p)
    /\ UNCHANGED <<items, adds, notBasket>>

\* updateQuantity(id, newQuantity): removeItem when newQuantity === 0.
OldUpdatedItems(list, id, newQuantity) ==
    IF newQuantity = 0 THEN FilterOut(list, id) ELSE MapQuantity(list, id, newQuantity)

\* The - and + buttons of a rendered line item call updateQuantity with its
\* rendered quantity - 1 and + 1; a rendered quantity is at least 1.
ButtonQuantities == 0..MaxQty

OldUpdateQuantity(id, newQuantity) ==
    /\ oldItems' = OldUpdatedItems(oldItems, id, newQuantity)
    /\ UNCHANGED <<items, adds, notBasket>>

OldRemoveItem(id) ==
    /\ oldItems' = FilterOut(oldItems, id)
    /\ UNCHANGED <<items, adds, notBasket>>

OldClearBasket ==
    /\ oldItems' = <<>>
    /\ UNCHANGED <<items, adds, notBasket>>

\* ------------------------------------------------------------------------
\* QRScanner
\* ------------------------------------------------------------------------
MaxStarts == 1
MaxScans == 2
MaxResults == 2

\* The two QRScanner components of the file: the one that calls useCart's
\* addToCart, and the one that calls its onScan prop.
Versions == {"hook", "callback"}

\* barcodes[0].rawValue
Barcodes == ProductIds

\* new Date(), and the instants an expiryDate can parse to, relative to it.
Now == 0
ExpiryDates == (Now - 1)..(Now + 1)
StockLevels == 0..1

\* Product, as far as processProductScan reads it: expiryDate and stock are
\* optional fields; name is carried by productId.
Products ==
    {p \in [productId : ProductIds, hasExpiry : BOOLEAN, expiryDate : ExpiryDates,
            hasStock : BOOLEAN, stock : StockLevels] :
        /\ (~p.hasExpiry => p.expiryDate = Now)
        /\ (~p.hasStock => p.stock = 0)}

NoProduct ==
    [productId |-> NULL, hasExpiry |-> FALSE, expiryDate |-> Now,
     hasStock |-> FALSE, stock |-> 0]

\* isExpired with the date comparison dropped.
IsExpired_Never(p) == FALSE

\* product.expiryDate && new Date(product.expiryDate) < new Date()
IsExpired(p) == p.hasExpiry /\ p.expiryDate < Now

\* isInStock written as (product.stock ?? 1) > 0.
IsInStock_AbsentOk(p) == ~p.hasStock \/ p.stock > 0

\* product.stock && product.stock > 0
IsInStock(p) == p.hasStock /\ p.stock # 0 /\ p.stock > 0

\* Bodies of the product endpoints.  By id: data is a product or missing.
\* Search: data is a list, of which the code reads the productIds and then the
\* fields of the one element it picks.
ByIdBodies(res) == IF Succeeds(res) THEN Products \cup {NoProduct} ELSE {NoProduct}

IdLists == UNION {[1..n -> ProductIds] : n \in 0..MaxResults}

\* products[0], else null: the exact match not looked for.
PickIndex_First(ids, barcode) == IF Len(ids) > 0 THEN 1 ELSE 0

\* products.find(p => p.productId === barcode), else products[0], else null.
PickIndex(ids, barcode) ==
    IF \E k \in 1..Len(ids) : ids[k] = barcode
    THEN CHOOSE k \in 1..Len(ids) :
            ids[k] = barcode /\ \A j \in 1..(k - 1) : ids[j] # barcode
    ELSE IF Len(ids) > 0 THEN 1 ELSE 0

\* The element the code picks from the list, with every value its fields can
\* have; NoProduct for an empty list.
Picked(ids, barcode) ==
    IF PickIndex(ids, barcode) = 0
    THEN {NoProduct}
    ELSE {p \in Products : p.productId = ids[PickIndex(ids, barcode)]}

NoBody == [ids |-> <<>>, picked |-> NoProduct]

\* if (!barcode || typeof barcode !== 'string')
ValidBarcode(b) == b # ""

St(msg, arg, type) == [msg |-> msg, arg |-> arg, type |-> type]

\* A startScanner call and the scanFrame loop it starts: where it stands (pc),
\* the stream its ImageCapture reads, and what the current frame's
\* processProductScan has done: the barcode, the request under way, the
\* fetches made, whether every by-id answer so far was a 500, and once
\* searchByBarcode has returned, the product and the lookup that gave it.  The
\* record holds the frame a loop has finished until its next frame begins.
NoRun ==
    [pc |-> "idle", stream |-> 0, b |-> NULL, req |-> IdleRequest,
     fetches |-> 0, byId500 |-> FALSE, product |-> NoProduct, path |-> "none"]

ScanInit ==
    /\ version \in Versions
    /\ window \in [BarcodeDetector : BOOLEAN, ImageCapture : BOOLEAN]
    /\ mounted = "no"
    /\ detector = FALSE
    /\ scanningRef = FALSE
    /\ isScanning = FALSE
    /\ isLoading = FALSE
    /\ status = St("", NULL, "info")
    /\ scannedData = ""
    /\ srcObject = 0
    /\ liveTracks = {}
    /\ scannedProducts = {}
    /\ timers = [b \in Barcodes |-> 0]
    /\ runs = [s \in 1..MaxStarts |-> NoRun]
    /\ resolutions = [b \in Barcodes |-> 0]
    /\ expiries = [b \in Barcodes |-> 0]

\* The mount effect.
MountScanner ==
    /\ mounted = "no"
    /\ mounted' = "yes"
    /\ detector' = window.BarcodeDetector
    /\ status' = IF window.BarcodeDetector
                 THEN St("READY", NULL, "info")
                 ELSE St("NOT_SUPPORTED", NULL, "error")
    /\ UNCHANGED <<version, window, scanningRef, isScanning, isLoading, scannedData,
                   srcObject, liveTracks, scannedProducts, timers, runs,
                   resolutions, expiries>>
    /\ UNCHANGED <<httpVars, authVars, cartVars, adds, basketVars>>

\* The toggle button disabled only while isLoading is set.
CanClick_LoadingOnly == mounted = "yes" /\ authInit /\ ~isLoading

\* The toggle button is rendered disabled while there is no detector or
\* isLoading is set; effects have run before any click is handled.
CanClick == mounted = "yes" /\ authInit /\ detector /\ ~isLoading

\* startScanner, up to its await of getUserMedia.
StartScanner(s) ==
    /\ CanClick
    /\ ~isScanning
    /\ runs[s].pc = "idle"
    /\ \A t \in 1..(s - 1) : runs[t].pc # "idle"
    /\ isLoading' = TRUE
    /\ status' = St("INITIALIZING", NULL, "info")
    /\ runs' = [runs EXCEPT ![s].pc = "getUserMedia"]
    /\ UNCHANGED <<version, window, mounted, detector, scanningRef, isScanning,
                   scannedData, srcObject, liveTracks, scannedProducts, timers,
                   resolutions, expiries>>
    /\ UNCHANGED <<httpVars, authVars, cartVars, adds, basketVars>>

\* stopScanner, called by the toggle button.
StopScanner ==
    /\ CanClick
    /\ isScanning
    /\ scanningRef' = FALSE
    /\ isScanning' = FALSE
    /\ isLoading' = FALSE
    /\ liveTracks' = liveTracks \ {srcObject}
    /\ srcObject' = 0
    /\ status' = St("STOPPED", NULL, "info")
    /\ UNCHANGED <<version, window, mounted, detector, scannedData,
                   scannedProducts, timers, runs, resolutions, expiries>>
    /\ UNCHANGED <<httpVars, authVars, cartVars, adds, basketVars>>

\* The component unmounts and the cleanup of the mount effect calls
\* stopScanner.  Whether the video element is still in videoRef.current when an
\* effect cleanup runs depends on the React version: refAttached.
Unmount(refAttached) ==
    /\ mounted = "yes"
    /\ mounted' = "gone"
    /\ scanningRef' = FALSE
    /\ isScanning' = FALSE
    /\ isLoading' = FALSE
    /\ IF refAttached /\ srcObject # 0
       THEN /\ liveTracks' = liveTracks \ {srcObject}
            /\ srcObject' = 0
       ELSE UNCHANGED <<liveTracks, srcObject>>
    /\ status' = St("STOPPED", NULL, "info")
    /\ UNCHANGED <<version, window, detector, scannedData,
                   scannedProducts, timers, runs, resolutions, expiries>>
    /\ UNCHANGED <<httpVars, authVars, cartVars, adds, basketVars>>

\* The catch of startScanner.
CameraFailed(s) ==
    /\ isLoading' = FALSE
    /\ status' = St("CAMERA_ERROR", NULL, "error")
    /\ runs' = [runs EXCEPT ![s].pc = "done"]
    /\ UNCHANGED <<scanningRef, isScanning>>

\* getUserMedia settles; granted, the stream goes to the video element and
\* startScanner awaits play().
GetUserMediaSettle(s, granted) ==
    /\ runs[s].pc = "getUserMedia"
    /\ IF granted /\ mounted = "yes"
       THEN /\ liveTracks' = liveTracks \cup {s}
            /\ srcObject' = s
            /\ runs' = [runs EXCEPT ![s].pc = "play"]
            /\ UNCHANGED <<scanningRef, isScanning, isLoading, status>>
       ELSE IF granted
       THEN \* videoRef.current is null: the stream is attached to nothing and
            \* detectBarcode returns at once
            /\ liveTracks' = liveTracks \cup {s}
            /\ scanningRef' = TRUE
            /\ isScanning' = TRUE
            /\ isLoading' = FALSE
            /\ status' = St("SCANNING", NULL, "info")
            /\ runs' = [runs EXCEPT ![s].pc = "done"]
            /\ UNCHANGED srcObject
       ELSE /\ CameraFailed(s)
            /\ UNCHANGED <<liveTracks, srcObject>>
    /\ UNCHANGED <<version, window, mounted, detector, scannedData,
                   scannedProducts, timers, resolutions, expiries>>
    /\ UNCHANGED <<httpVars, authVars, cartVars, adds, basketVars>>

\* play() settles; fulfilled, startScanner sets the scanning flags and calls
\* detectBarcode, which runs scanFrame up to its await of grabFrame.
PlaySettle(s, played) ==
    /\ runs[s].pc = "play"
    /\ IF played
       THEN /\ scanningRef' = TRUE
            /\ isScanning' = TRUE
            /\ isLoading' = FALSE
            /\ IF ~detector \/ mounted # "yes" \/ srcObject = 0
               THEN /\ status' = St("SCANNING", NULL, "info")
                    /\ runs' = [runs EXCEPT ![s].pc = "done"]
               ELSE IF ~window.ImageCapture
               THEN /\ status' = St("CAPTURE_NOT_SUPPORTED", NULL, "error")
                    /\ runs' = [runs EXCEPT ![s].pc = "done"]
               ELSE /\ status' = St("SCANNING", NULL, "info")
                    /\ runs' = [runs EXCEPT ![s].pc = "grab", ![s].stream = srcObject]
       ELSE CameraFailed(s)
    /\ UNCHANGED <<version, window, mounted, detector, scannedData, srcObject,
                   liveTracks, scannedProducts, timers, resolutions, expiries>>
    /\ UNCHANGED <<httpVars, authVars, cartVars, adds, basketVars>>

\* scanFrame ending with no next cycle requested.
FrameTail_Stop(r) == [NoRun EXCEPT !.pc = "done", !.stream = r.stream]

\* The end of scanFrame: if (scanningRef.current) requestAnimationFrame(scanFrame)
FrameTail(r) == [NoRun EXCEPT !.pc = IF scanningRef THEN "raf" ELSE "done",
                         !.stream = r.stream]

\* The animation frame callback: scanFrame up to its await of grabFrame.
RafFire(s) ==
    /\ runs[s].pc = "raf"
    /\ runs' = [runs EXCEPT ![s] =
                   [NoRun EXCEPT !.pc = IF scanningRef THEN "grab" ELSE "done",
                                 !.stream = runs[s].stream]]
    /\ UNCHANGED <<version, window, mounted, detector, scanningRef, isScanning,
                   isLoading, status, scannedData, srcObject, liveTracks,
                   scannedProducts, timers, resolutions, expiries>>
    /\ UNCHANGED <<httpVars, authVars, cartVars, adds, basketVars>>

\* grabFrame settles: it rejects on a stopped track; a rejection is caught.
GrabSettle(s, grabbed) ==
    /\ runs[s].pc = "grab"
    /\ grabbed => runs[s].stream \in liveTracks
    /\ runs' = [runs EXCEPT ![s] = IF grabbed THEN [@ EXCEPT !.pc = "detect"] ELSE FrameTail(@)]
    /\ UNCHANGED <<version, window, mounted, detector, scanningRef, isScanning,
                   isLoading, status, scannedData, srcObject, liveTracks,
                   scannedProducts, timers, resolutions, expiries>>
    /\ UNCHANGED <<httpVars, authVars, cartVars, adds, basketVars>>

\* processProductScan calls started so far.
Started == resolutions["P1"] + resolutions["P2"]

DetectResults == Barcodes \cup {"none", "error"}

\* scanFrame without the recently-seen test.
AlreadyScanned_Never(b) == FALSE

\* scannedProductsRef.current.has(productId)
AlreadyScanned(b) == b \in scannedProducts

\* detect settles.  A barcode that is not in the recently-seen set is added to
\* it and processProductScan runs up to the first fetch of searchByBarcode.
DetectSettle(s, found) ==
    /\ runs[s].pc = "detect"
    /\ IF found \in Barcodes /\ ~AlreadyScanned(found)
       THEN /\ Started < MaxScans
            /\ scannedProducts' = scannedProducts \cup {found}
            /\ scannedData' = found
            /\ isLoading' = TRUE
            /\ status' = St("PROCESSING", NULL, "info")
            /\ resolutions' = [resolutions EXCEPT ![found] = @ + 1]
            /\ runs' = [runs EXCEPT ![s] =
                           [pc |-> IF ValidBarcode(found) THEN "byId" ELSE "search",
                            stream |-> @.stream, b |-> found, req |-> NewRequest,
                            fetches |-> 1, byId500 |-> ValidBarcode(found),
                            product |-> NoProduct, path |-> "none"]]
       ELSE /\ runs' = [runs EXCEPT ![s] =
                           IF found \in Barcodes /\ scanningRef
                           THEN [@ EXCEPT !.pc = "raf", !.b = found, !.path = "skipped"]
                           ELSE FrameTail(@)]
            /\ UNCHANGED <<scannedProducts, scannedData, isLoading, status, resolutions>>
    /\ UNCHANGED <<version, window, mounted, detector, scanningRef, isScanning,
                   srcObject, liveTracks, timers, expiries>>
    /\ UNCHANGED <<httpVars, authVars, cartVars, adds, basketVars>>

\* The backoff sleep of the lookup's makeRequest is over: next attempt.
LookupWake(s) ==
    /\ runs[s].pc \in {"byId", "search"}
    /\ runs[s].req.phase = "sleeping"
    /\ runs' = [runs EXCEPT ![s].req = Wake(@), ![s].fetches = @ + 1]
    /\ UNCHANGED <<version, window, mounted, detector, scanningRef, isScanning,
                   isLoading, status, scannedData, srcObject, liveTracks,
                   scannedProducts, timers, resolutions, expiries>>
    /\ UNCHANGED <<httpVars, authVars, cartVars, adds, basketVars>>

\* processProductScan giving up on its product once scanning was stopped.
Verdict_StoppedDrops(p) ==
    IF p = NoProduct \/ ~scanningRef THEN "notfound"
    ELSE IF IsExpired(p) THEN "expired"
    ELSE IF ~IsInStock(p) THEN "outofstock"
    ELSE "added"

\* What processProductScan decides for the product searchByBarcode returned.
Verdict(p) ==
    IF p = NoProduct THEN "notfound"
    ELSE IF IsExpired(p) THEN "expired"
    ELSE IF ~IsInStock(p) THEN "outofstock"
    ELSE "added"

VerdictStatus(p, b) ==
    CASE Verdict(p) = "notfound" ->
            St("PRODUCT_NOT_FOUND", IF version = "callback" THEN b ELSE NULL, "error")
      [] Verdict(p) = "expired" -> St("EXPIRED", p.productId, "error")
      [] Verdict(p) = "outofstock" -> St("OUT_OF_STOCK", p.productId, "error")
      [] OTHER ->
            St("ITEM_ADDED", IF version = "callback" THEN p.productId ELSE NULL, "success")

\* processProductScan with no setTimeout at its end.
ScheduleRemoval_Never(t, b) == t

\* setTimeout(() => scannedProductsRef.current.delete(productId), 3000), the
\* statement after processProductScan's try / catch / finally.
ScheduleRemoval(t, b) == [t EXCEPT ![b] = @ + 1]

\* searchByBarcode has returned p: the rest of processProductScan, then the
\* end of scanFrame.
FinishScan(s, req, p, path) ==
    /\ status' = VerdictStatus(p, runs[s].b)
    /\ IF Verdict(p) = "added"
       THEN IF version = "hook"
            THEN AddToCartStep("scanner", p.productId) /\ UNCHANGED <<adds, basketVars>>
            ELSE HandleProductScannedStep(p.productId)
                 /\ UNCHANGED <<authVars, cartVars, adds>>
       ELSE UNCHANGED <<authVars, cartVars, adds, basketVars>>
    /\ isLoading' = FALSE
    /\ timers' = ScheduleRemoval(timers, runs[s].b)
    /\ runs' = [runs EXCEPT ![s] =
                   [@ EXCEPT !.pc = IF scanningRef THEN "raf" ELSE "done",
                             !.req = IdleRequest, !.product = p, !.path = path,
                             !.byId500 = @ /\ path = "search"]]

\* A fetch of the by-id lookup settles.  A resolved request returns
\* response.data || null; a rejected one starts the fallback search.
ByIdSettle(s, res, body) ==
    /\ runs[s].pc = "byId"
    /\ runs[s].req.phase = "fetching"
    /\ LET req == Settle(runs[s].req, res)
           all500 == runs[s].byId500 /\ res.kind = "response" /\ res.status = 500
       IN  IF req.phase = "resolved"
           THEN FinishScan(s, req, body, "byId")
           ELSE /\ runs' = [runs EXCEPT ![s] =
                               IF req.phase = "sleeping"
                               THEN [@ EXCEPT !.req = req, !.byId500 = all500]
                               ELSE [@ EXCEPT !.pc = "search", !.req = NewRequest,
                                              !.fetches = @ + 1, !.byId500 = all500]]
                /\ UNCHANGED <<status, isLoading, timers>>
                /\ UNCHANGED <<authVars, cartVars, adds, basketVars>>
    /\ UNCHANGED <<version, window, mounted, detector, scanningRef, isScanning,
                   scannedData, srcObject, liveTracks, scannedProducts,
                   resolutions, expiries>>
    /\ UNCHANGED httpVars

\* The bodies the search of loop s can be answered with.
SearchBodies(res, s) ==
    IF runs[s].pc = "search" /\ Succeeds(res)
    THEN UNION {{[ids |-> ids, picked |-> p] : p \in Picked(ids, runs[s].b)} :
                  ids \in IdLists}
    ELSE {NoBody}

\* A fetch of the fallback search settles.  A resolved request returns the
\* picked product; a rejected one returns null.
SearchSettle(s, res, body) ==
    /\ runs[s].pc = "search"
    /\ runs[s].req.phase = "fetching"
    /\ LET req == Settle(runs[s].req, res)
       IN  IF req.phase = "sleeping"
           THEN /\ runs' = [runs EXCEPT ![s].req = req]
                /\ UNCHANGED <<status, isLoading, timers>>
                /\ UNCHANGED <<authVars, cartVars, adds, basketVars>>
           ELSE FinishScan(s, req, body.picked, "search")
    /\ UNCHANGED <<version, window, mounted, detector, scanningRef, isScanning,
                   scannedData, srcObject, liveTracks, scannedProducts,
                   resolutions, expiries>>
    /\ UNCHANGED httpVars

\* The setTimeout callback scheduled at the end of processProductScan.
TimerFire(b) ==
    /\ timers[b] > 0
    /\ timers' = [timers EXCEPT ![b] = @ - 1]
    /\ scannedProducts' = scannedProducts \ {b}
    /\ expiries' = [expiries EXCEPT ![b] = @ + 1]
    /\ status' = IF version = "callback" /\ scanningRef
                 THEN St("READY_NEXT", NULL, "info")
                 ELSE status
    /\ UNCHANGED <<version, window, mounted, detector, scanningRef, isScanning,
                   isLoading, scannedData, srcObject, liveTracks, runs,
                   resolutions>>
    /\ UNCHANGED <<httpVars, authVars, cartVars, adds, basketVars>>

\* ------------------------------------------------------------------------
\* productService.searchByBarcode on its own
\* ------------------------------------------------------------------------
\* An argument of searchByBarcode: a string, or a value that is not one
\* (null, as an untyped caller can pass).
StringArg(v) == [isString |-> TRUE, value |-> v]

NullArg == [isString |-> FALSE, value |-> NULL]

BarcodeArgs == {StringArg(b) : b \in Barcodes \cup {""}} \cup {NullArg}

\* if (!barcode || typeof barcode !== 'string') throw new Error('Invalid barcode')
ValidArg(a) == a.isString /\ ValidBarcode(a.value)

\* The query string get() builds from { search: barcode }: a parameter whose
\* value is undefined or null is left out, any other is appended as a string.
QueryOf(a) == IF a.isString THEN [hasSearch |-> TRUE, search |-> a.value]
              ELSE [hasSearch |-> FALSE, search |-> ""]

NoQuery == [hasSearch |-> FALSE, search |-> ""]

\* The state of a call: where it stands, the request under way, the HTTP
\* requests made, how the by-id lookup ended and with what data, the query and
\* the result list of the search, and the product returned.
NoLookup ==
    [pc |-> "idle", arg |-> StringArg(""), req |-> IdleRequest, fetches |-> 0,
     byId |-> "none", byIdData |-> NoProduct, searched |-> FALSE,
     query |-> NoQuery, ids |-> <<>>, product |-> NoProduct]

LookupParked == lookup = NoLookup

\* The fallback of searchByBarcode's outer catch: getProducts({ search: barcode }).
StartSearch(l, byId) ==
    [l EXCEPT !.pc = "search", !.req = NewRequest, !.fetches = @ + 1, !.byId = byId,
              !.searched = TRUE, !.query = QueryOf(l.arg)]

\* searchByBarcode(barcode) up to its first await.  The validation throw is
\* inside the outer try, so its catch starts the search.
SearchByBarcode(a) ==
    /\ lookup.pc = "idle"
    /\ lookup' = IF ValidArg(a)
                 THEN [lookup EXCEPT !.pc = "byId", !.arg = a, !.req = NewRequest,
                                     !.fetches = 1]
                 ELSE StartSearch([lookup EXCEPT !.arg = a], "invalid")
    /\ UNCHANGED <<call, fetchCount, sleepLog, hist, notHttp>>

\* A fetch of getProductById's request settles: return response.data || null,
\* or retry, or (rejected, rethrown by getProductById) the outer catch.
GetProductByIdSettle(res, data) ==
    /\ lookup.pc = "byId"
    /\ lookup.req.phase = "fetching"
    /\ LET req == Settle(lookup.req, res)
       IN  lookup' =
              IF req.phase = "resolved"
              THEN [lookup EXCEPT !.pc = "returned", !.req = req, !.byId = "resolved",
                                  !.byIdData = data, !.product = data]
              ELSE IF req.phase = "sleeping"
              THEN [lookup EXCEPT !.req = req]
              ELSE StartSearch(lookup,
                               IF ~req.err.hasStatus THEN "network"
                               ELSE IF req.err.status = 404 THEN "notfound"
                               ELSE "status")
    /\ UNCHANGED <<call, fetchCount, sleepLog, hist, notHttp>>

\* The result lists the search can be answered with, each with the element
\* the code picks from it.
LookupBodies(res) ==
    IF lookup.pc = "search" /\ Succeeds(res)
    THEN UNION {{[ids |-> ids, picked |-> p] : p \in Picked(ids, lookup.arg.value)} :
                  ids \in IdLists}
    ELSE {NoBody}

\* A fetch of getProducts' request settles: the picked product, or retry, or
\* (rejected) the inner catch, which returns null.
GetProductsSettle(res, body) ==
    /\ lookup.pc = "search"
    /\ lookup.req.phase = "fetching"
    /\ LET req == Settle(lookup.req, res)
       IN  lookup' =
              IF req.phase = "sleeping"
              THEN [lookup EXCEPT !.req = req]
              ELSE [lookup EXCEPT !.pc = "returned", !.req = req, !.ids = body.ids,
                                  !.product = body.picked]
    /\ UNCHANGED <<call, fetchCount, sleepLog, hist, notHttp>>

\* The backoff sleep of the request under way is over: next attempt.
RequestWake ==
    /\ lookup.pc \in {"byId", "search"}
    /\ lookup.req.phase = "sleeping"
    /\ lookup' = [lookup EXCEPT !.req = Wake(@), !.fetches = @ + 1]
    /\ UNCHANGED <<call, fetchCount, sleepLog, hist, notHttp>>

ScanParked ==
    /\ version = "hook"
    /\ window = [BarcodeDetector |-> TRUE, ImageCapture |-> TRUE]
    /\ mounted = "no"
    /\ detector = FALSE
    /\ scanningRef = FALSE
    /\ isScanning = FALSE
    /\ isLoading = FALSE
    /\ status = St("", NULL, "info")
    /\ scannedData = ""
    /\ srcObject = 0
    /\ liveTracks = {}
    /\ scannedProducts = {}
    /\ timers = [b \in Barcodes |-> 0]
    /\ runs = [s \in 1..MaxStarts |-> NoRun]
    /\ resolutions = [b \in Barcodes |-> 0]
    /\ expiries = [b \in Barcodes |-> 0]

\* ------------------------------------------------------------------------
\* Specifications
\* ------------------------------------------------------------------------
HttpParked == call = IdleRequest /\ fetchCount = 0 /\ sleepLog = <<>> /\ hist = <<>>

\* One makeRequest call.
InitHttp == HttpInit /\ LookupParked /\ AuthInit /\ CartInit /\ BasketInit /\ ScanParked

SpecHttp == InitHttp /\ [][HttpNext]_vars

\* The useCart instances of one page, under every operation of the hook.
CartNext ==
    \/ InitializeSession
    \/ \E i \in CartInstances, o \in CallOutcomes, data \in ServerCarts :
          FetchCartSettle(i, o, data)
    \/ \E i \in CartInstances, p \in ProductIds : AddToCart(i, p)
    \/ \E i \in CartInstances, p \in ProductIds : RemoveFromCart(i, p)
    \/ \E i \in CartInstances, p \in ProductIds, q \in QuantityInputs :
          UpdateQuantity(i, p, q)
    \/ \E i \in CartInstances : ClearCart(i)
    \/ \E k \in 1..MaxSyncs, o \in CallOutcomes : SyncSettle(k, o)

Init == HttpParked /\ LookupParked /\ AuthInit /\ CartInit /\ BasketInit /\ ScanParked

SpecCart == Init /\ [][CartNext]_vars

\* Runs made of add operations only, each add counted; a basket that getCart
\* data was loaded into is marked, its contents being more than its adds.
CountedAddToCart(i, p) ==
    /\ adds[i].n[p] < MaxAdds
    /\ AddToCartStep(i, p)
    /\ adds' = [adds EXCEPT ![i].n[p] = @ + 1]
    /\ UNCHANGED notCart

CountedProductScanned(p) ==
    /\ adds["local"].n[p] < MaxAdds
    /\ HandleProductScannedStep(p)
    /\ adds' = [adds EXCEPT !["local"].n[p] = @ + 1]
    /\ UNCHANGED notBasket

CountedFetchCartSettle(i, outcome, data) ==
    /\ FetchCartStep(i, outcome, data)
    /\ adds' = IF outcome = "data" THEN [adds EXCEPT ![i].loaded = TRUE] ELSE adds

AddsNext ==
    \/ InitializeSession
    \/ \E i \in CartInstances, o \in CallOutcomes, data \in ServerCarts :
          CountedFetchCartSettle(i, o, data)
    \/ \E i \in CartInstances, p \in ProductIds : CountedAddToCart(i, p)
    \/ \E p \in ProductIds : CountedProductScanned(p)
    \/ \E k \in 1..MaxSyncs, o \in CallOutcomes : SyncSettle(k, o)

SpecAdds == Init /\ [][AddsNext]_vars

\* The three basket implementations side by side, each under the operations
\* its component offers: the GroceryBasket that renders useCart's cartItems,
\* the GroceryBasket with its own items, and the earlier one.
BasketsNext ==
    \/ InitializeSession
    \/ \E o \in CallOutcomes, data \in ServerCarts : FetchCartSettle("basket", o, data)
    \/ \E p \in ProductIds : AddToCart("basket", p)
    \/ \E p \in ProductIds : RemoveFromCart("basket", p)
    \/ \E p \in ProductIds, q \in QuantityInputs : UpdateQuantity("basket", p, q)
    \/ ClearCart("basket")
    \/ \E k \in 1..MaxSyncs, o \in CallOutcomes : SyncSettle(k, o)
    \/ \E p \in ProductIds : HandleProductScanned(p)
    \/ \E p \in ProductIds, change \in QuantityChanges : HandleUpdateQuantity(p, change)
    \/ HandleClearBasket
    \/ \E p \in ProductIds : OldProductScanned(p)
    \/ \E p \in ProductIds, q \in ButtonQuantities : OldUpdateQuantity(p, q)
    \/ \E p \in ProductIds : OldRemoveItem(p)
    \/ OldClearBasket

SpecBaskets == Init /\ [][BasketsNext]_vars

\* The quantity buttons of the two GroceryBasket components, clicked while
\* earlier sync calls are pending.
ClicksNext ==
    \/ InitializeSession
    \/ \E o \in CallOutcomes, data \in ServerCarts : FetchCartSettle("basket", o, data)
    \/ \E p \in ProductIds : AddToCart("basket", p)
    \/ \E p \in ProductIds, change \in QuantityChanges : QuantityClick("basket", p, change)
    \/ \E k \in 1..MaxClickSyncs, o \in CallOutcomes : SyncSettle(k, o)
    \/ \E p \in ProductIds : HandleProductScanned(p)
    \/ \E p \in ProductIds, change \in QuantityChanges : LocalQuantityClick(p, change)

SpecClicks == Init /\ [][ClicksNext]_vars

\* One addToCart call of the basket's useCart and its POST.
PostNext ==
    \/ InitializeSession
    \/ \E p \in ProductIds : AddToCartPost(p)
    \/ \E at \in PostAttempts : PostSettle(at)
    \/ PostWake

SpecPost == Init /\ [][PostNext]_vars

\* One request through AuthApiClient, with or without a stored refreshToken.
AuthApiInit ==
    /\ HttpParked /\ LookupParked /\ SessionInit /\ CartInit /\ BasketInit /\ ScanParked
    /\ authApi \in {NoAuthCall(stored) : stored \in BOOLEAN}

AuthApiNext ==
    \/ InitializeSession
    \/ AuthRequest
    \/ \E code \in AuthAnswers : AuthAnswer(code)

SpecAuthApi == AuthApiInit /\ [][AuthApiNext]_vars

\* The scanner page: AuthProvider, QRScanner and the basket it feeds.
ScanNext ==
    \/ InitializeSession
    \/ \E i \in {j \in {"scanner"} : version = "hook"}, o \in CallOutcomes,
          data \in ServerCarts : FetchCartSettle(i, o, data)
    \/ MountScanner
    \/ \E s \in 1..MaxStarts : StartScanner(s)
    \/ StopScanner
    \/ \E s \in 1..MaxStarts, granted \in BOOLEAN : GetUserMediaSettle(s, granted)
    \/ \E s \in 1..MaxStarts, played \in BOOLEAN : PlaySettle(s, played)
    \/ \E s \in 1..MaxStarts : RafFire(s)
    \/ \E s \in 1..MaxStarts, grabbed \in BOOLEAN : GrabSettle(s, grabbed)
    \/ \E s \in 1..MaxStarts, found \in DetectResults : DetectSettle(s, found)
    \/ \E s \in 1..MaxStarts, res \in FetchResults :
          \E body \in ByIdBodies(res) : ByIdSettle(s, res, body)
    \/ \E s \in 1..MaxStarts, res \in FetchResults :
          \E body \in SearchBodies(res, s) : SearchSettle(s, res, body)
    \/ \E s \in 1..MaxStarts : LookupWake(s)
    \/ \E b \in Barcodes : TimerFire(b)
    \/ \E k \in 1..MaxSyncs, o \in CallOutcomes : SyncSettle(k, o)

\* The scanner's camera sessions alone: the camera sees no barcode, the
\* component may unmount, and the button may be used MaxCameraStarts times.
MaxCameraStarts == 3

EmptyFrames == {"none", "error"}

CameraInit ==
    /\ HttpParked /\ LookupParked /\ AuthInit /\ CartInit /\ BasketInit
    /\ version \in Versions
    /\ window \in [BarcodeDetector : BOOLEAN, ImageCapture : BOOLEAN]
    /\ mounted = "no"
    /\ detector = FALSE
    /\ scanningRef = FALSE
    /\ isScanning = FALSE
    /\ isLoading = FALSE
    /\ status = St("", NULL, "info")
    /\ scannedData = ""
    /\ srcObject = 0
    /\ liveTracks = {}
    /\ scannedProducts = {}
    /\ timers = [b \in Barcodes |-> 0]
    /\ runs = [s \in 1..MaxCameraStarts |-> NoRun]
    /\ resolutions = [b \in Barcodes |-> 0]
    /\ expiries = [b \in Barcodes |-> 0]

CameraNext ==
    \/ InitializeSession
    \/ MountScanner
    \/ \E refAttached \in BOOLEAN : Unmount(refAttached)
    \/ \E s \in 1..MaxCameraStarts : StartScanner(s)
    \/ StopScanner
    \/ \E s \in 1..MaxCameraStarts, granted \in BOOLEAN : GetUserMediaSettle(s, granted)
    \/ \E s \in 1..MaxCameraStarts, played \in BOOLEAN : PlaySettle(s, played)
    \/ \E s \in 1..MaxCameraStarts : RafFire(s)
    \/ \E s \in 1..MaxCameraStarts, grabbed \in BOOLEAN : GrabSettle(s, grabbed)
    \/ \E s \in 1..MaxCameraStarts, found \in EmptyFrames : DetectSettle(s, found)

SpecCamera == CameraInit /\ [][CameraNext]_vars

\* The scanner stopped and started again while frames and lookups of the
\* first start are still pending.  Lookups get single answers: the by-id
\* request a product or a 404, the search after a 404 a 404.
MaxRestarts == 2

Found == [kind |-> "response", status |-> 200, json |-> TRUE]

NotFound == [kind |-> "response", status |-> 404, json |-> TRUE]

\* A product past its expiry date, and one with stock 0.
Expired(b) ==
    [productId |-> b, hasExpiry |-> TRUE, expiryDate |-> Now - 1, hasStock |-> TRUE, stock |-> 1]

SoldOut(b) ==
    [productId |-> b, hasExpiry |-> FALSE, expiryDate |-> Now, hasStock |-> TRUE, stock |-> 0]

\* A product in stock with no expiry date.
Sellable(b) ==
    [productId |-> b, hasExpiry |-> FALSE, expiryDate |-> Now, hasStock |-> TRUE, stock |-> 1]

RescanInit ==
    /\ HttpParked /\ LookupParked /\ AuthInit /\ CartInit /\ BasketInit
    /\ version \in Versions
    /\ window = [BarcodeDetector |-> TRUE, ImageCapture |-> TRUE]
    /\ mounted = "no"
    /\ detector = FALSE
    /\ scanningRef = FALSE
    /\ isScanning = FALSE
    /\ isLoading = FALSE
    /\ status = St("", NULL, "info")
    /\ scannedData = ""
    /\ srcObject = 0
    /\ liveTracks = {}
    /\ scannedProducts = {}
    /\ timers = [b \in Barcodes |-> 0]
    /\ runs = [s \in 1..MaxRestarts |-> NoRun]
    /\ resolutions = [b \in Barcodes |-> 0]
    /\ expiries = [b \in Barcodes |-> 0]

RescanNext ==
    \/ InitializeSession
    \/ MountScanner
    \/ \E s \in 1..MaxRestarts : StartScanner(s)
    \/ StopScanner
    \/ \E s \in 1..MaxRestarts : GetUserMediaSettle(s, TRUE)
    \/ \E s \in 1..MaxRestarts : PlaySettle(s, TRUE)
    \/ \E s \in 1..MaxRestarts : RafFire(s)
    \/ \E s \in 1..MaxRestarts, grabbed \in BOOLEAN : GrabSettle(s, grabbed)
    \/ \E s \in 1..MaxRestarts, found \in DetectResults : DetectSettle(s, found)
    \/ \E s \in 1..MaxRestarts : ByIdSettle(s, Found, Sellable(runs[s].b))
    \/ \E s \in 1..MaxRestarts : ByIdSettle(s, Found, Expired(runs[s].b))
    \/ \E s \in 1..MaxRestarts : ByIdSettle(s, Found, SoldOut(runs[s].b))
    \/ \E s \in 1..MaxRestarts : ByIdSettle(s, NotFound, NoProduct)
    \/ \E s \in 1..MaxRestarts : SearchSettle(s, NotFound, NoBody)
    \/ \E b \in Barcodes : TimerFire(b)
    \/ \E k \in 1..MaxSyncs, o \in CallOutcomes : SyncSettle(k, o)

SpecRescan == RescanInit /\ [][RescanNext]_vars

\* Every fetch of a lookup settles (makeRequest races it against a timeout)
\* and every timer that was set fires.
LookupSettles ==
    \E s \in 1..MaxRestarts :
        \/ ByIdSettle(s, Found, Sellable(runs[s].b))
        \/ ByIdSettle(s, Found, Expired(runs[s].b))
        \/ ByIdSettle(s, Found, SoldOut(runs[s].b))
        \/ ByIdSettle(s, NotFound, NoProduct)
        \/ SearchSettle(s, NotFound, NoBody)

TimersFire == \E b \in Barcodes : TimerFire(b)

FairRescan == SpecRescan /\ WF_vars(LookupSettles) /\ WF_vars(TimersFire)

\* One searchByBarcode call, with every argument and every answer.
LookupNext ==
    \/ \E a \in BarcodeArgs : SearchByBarcode(a)
    \/ \E res \in FetchResults : \E data \in ByIdBodies(res) : GetProductByIdSettle(res, data)
    \/ \E res \in FetchResults : \E body \in LookupBodies(res) : GetProductsSettle(res, body)
    \/ RequestWake

SpecLookup == Init /\ [][LookupNext]_vars

InitScan == HttpParked /\ LookupParked /\ AuthInit /\ CartInit /\ BasketInit /\ ScanInit

SpecScan == InitScan /\ [][ScanNext]_vars

\* ------------------------------------------------------------------------
\* Properties of makeRequest
\* ------------------------------------------------------------------------
\* A failure of the kinds the retry policy is described for.
Transient(res) ==
    \/ res.kind \in {"timeout", "network"}
    \/ res.kind = "response" /\ res.status >= 500

Is4xx(res) == res.kind = "response" /\ res.status >= 400 /\ res.status <= 499

\* An ok response whose body does not parse: response.json() throws.
UnparsableOk(res) == ResponseOk(res) /\ ~res.json

AllTransient == \A i \in 1..Len(hist) : Transient(hist[i])

\* The attempts that were followed by a backoff sleep and another attempt.
RetriedAttempts ==
    {i \in 1..Len(hist) : i < Len(hist) \/ call.phase = "sleeping"}

(* C7: a call whose every attempt fails with a 5xx response, a network     *)
(* error or a timeout makes exactly RETRY_ATTEMPTS fetch attempts and then *)
(* rejects: it is still under way before the last attempt has failed, it   *)
(* is rejected once it has, and no call ever makes a further fetch.        *)
RetryBoundExact ==
    /\ fetchCount <= RETRY_ATTEMPTS
    /\ AllTransient =>
        /\ call.phase = "rejected" =>
              fetchCount = RETRY_ATTEMPTS /\ Len(hist) = RETRY_ATTEMPTS
        /\ Len(hist) = RETRY_ATTEMPTS => call.phase = "rejected"
        /\ Len(hist) < RETRY_ATTEMPTS => call.phase \in {"idle", "fetching", "sleeping"}

RetryBoundReached ==
    /\ call.phase = "rejected"
    /\ Len(hist) = RETRY_ATTEMPTS
    /\ AllTransient
    /\ fetchCount = RETRY_ATTEMPTS
    /\ sleepLog = <<RETRY_DELAY, 2 * RETRY_DELAY>>

\* A 4xx response ends the call at once: it is the last attempt, the call is
\* rejected with the error carrying that status, and no sleep or fetch follows.
ClientErrorSurfaced ==
    \A i \in 1..Len(hist) :
        Is4xx(hist[i]) =>
            /\ i = Len(hist)
            /\ call.phase = "rejected"
            /\ call.err = [hasStatus |-> TRUE, status |-> hist[i].status]
            /\ Len(sleepLog) = i - 1
            /\ fetchCount = i

(* C8 as stated: a 4xx response is surfaced at once without retry, and     *)
(* network failures, timeouts and 5xx responses are the only failures      *)
(* that are retried.                                                       *)
OnlyTransientRetried ==
    /\ ClientErrorSurfaced
    /\ \A i \in RetriedAttempts : Transient(hist[i])

(* C8 amended: a 4xx response is surfaced at once without retry; the       *)
(* failures that are retried are network failures, timeouts, 5xx responses *)
(* and ok responses whose body fails to parse as JSON, and no others.      *)
OnlyStatuslessOr5xxRetried ==
    /\ ClientErrorSurfaced
    /\ \A i \in RetriedAttempts : Transient(hist[i]) \/ UnparsableOk(hist[i])

ClientErrorAfterRetry ==
    /\ Len(hist) = 2
    /\ UnparsableOk(hist[1])
    /\ Is4xx(hist[2])
    /\ call.phase = "rejected"
    /\ fetchCount = 2

\* ------------------------------------------------------------------------
\* Properties of the baskets
\* ------------------------------------------------------------------------
BasketOf(b) == IF b = "local" THEN items ELSE cartItems[b]

(* C2: after any sequence of add operations and nothing else (addToCart on  *)
(* a useCart basket, handleProductScanned on GroceryBasket's own list), a   *)
(* basket that started empty holds at most one line item per product id,    *)
(* with quantity equal to the number of adds made for that id.              *)
AddsCounted ==
    \A b \in Baskets :
        ~adds[b].loaded =>
            /\ UniqueIds(BasketOf(b))
            /\ \A p \in ProductIds : Qty(BasketOf(b), p) = adds[b].n[p]

(* C3: every addToCart(product) call, in every session state, leaves the    *)
(* caller's cartItems holding the product's line item with the quantity     *)
(* raised by one as soon as its synchronous part has run.                   *)
OptimisticAdd ==
    [][\A i \in CartInstances, p \in ProductIds :
          AddToCart(i, p) => Qty(cartItems'[i], p) = Qty(cartItems[i], p) + 1]_vars

(* C4: the components that use useCart share one basket state: once         *)
(* QRScanner's addToCart(p) has taken effect, the cartItems GroceryBasket    *)
(* renders contain p, with no refetch in between.                           *)
SharedBasket ==
    [][\A p \in ProductIds :
          AddToCart("scanner", p) /\ HasSession => HasItem(cartItems'["basket"], p)]_vars

\* Everything but the line item id of instance i is as it was.
OthersUnchanged(i, id) ==
    /\ \A j \in CartInstances \ {i} : cartItems'[j] = cartItems[j]
    /\ FilterOut(cartItems'[i], id) = FilterOut(cartItems[i], id)

(* C10: updateQuantity(id, q) leaves id absent from the basket when q <= 0, *)
(* leaves a present id with quantity exactly q when q > 0, and leaves every *)
(* other line item as it was.                                               *)
SetQuantityExact ==
    [][\A i \in CartInstances, id \in ProductIds, q \in QuantityInputs :
          UpdateQuantity(i, id, q) =>
              /\ q <= 0 => ~HasItem(cartItems'[i], id)
              /\ q > 0 /\ HasItem(cartItems[i], id) => Qty(cartItems'[i], id) = q
              /\ OthersUnchanged(i, id)]_vars

SetQuantityApplied ==
    /\ lastOp = [op |-> "update", inst |-> "basket", id |-> "P1", q |-> 2]
    /\ cartItems["basket"] = <<LineItem("P2", 2), LineItem("P1", 2)>>

\* The step in which the remote-sync call of a cart operation fails (its
\* promise rejects after makeRequest's retries).
SyncFails == Len(syncs') < Len(syncs) /\ settled'.logged

(* C13: when the remote-sync call of addToCart, removeFromCart,             *)
(* updateQuantity or clearCart fails, cartItems stay as the optimistic      *)
(* mutation left them, the operation's promise is fulfilled, not rejected,  *)
(* and nothing but the log shows the failure (no status, no basket change). *)
SyncFailureLoggedOnly ==
    [][SyncFails =>
          /\ cartItems' = cartItems
          /\ settled'.promise = "fulfilled"
          /\ UNCHANGED <<status, items, oldItems, lastOp, fetchCart>>]_vars

\* The sync of addToCart(P1) has failed and the basket still holds the item
\* the optimistic update put there.
FailedSyncKept ==
    /\ settled = [op |-> "add", promise |-> "fulfilled", logged |-> TRUE]
    /\ lastOp = [op |-> "add", inst |-> "basket", id |-> "P1", q |-> 1]
    /\ cartItems["basket"] = <<LineItem("P1", 1)>>
    /\ syncs = <<>>

\* The operations that mutate cartItems locally.
LocalOps == {"add", "remove", "update", "clear"}

\* The last write to basket i was a local mutation (made with a session).
LocallyMutated(i) == HasSession /\ lastOp.inst = i /\ lastOp.op \in LocalOps

\* The step in which the getCart call of basket i's fetchCart effect ends.
FetchEnds(i) == fetchCart[i] = "pending" /\ fetchCart'[i] = "idle"

(* C18: once a local mutation (addToCart, removeFromCart, updateQuantity,   *)
(* clearCart) has been applied to a useCart basket, no remote response      *)
(* replaces its contents: the response of the initial getCart that arrives  *)
(* after the mutation leaves cartItems as they are.                         *)
LocalBasketAuthoritative ==
    [][\A i \in CartInstances :
          (LocallyMutated(i) /\ FetchEnds(i)) => cartItems'[i] = cartItems[i]]_vars

\* The last write to basket i was a quantity click on id.
ClickedBefore(i, id) ==
    lastOp.op = "update" /\ lastOp.inst = i /\ lastOp.id = id /\ lastOp.q >= 1

(* C25: two quantity clicks on the same line item, handled one after the    *)
(* other, both take effect on the local basket, wherever the completions of *)
(* their sync calls fall: each click changes the quantity the previous one  *)
(* left by its own +1 or -1 (two + on n leave n + 2, + then - leaves n).    *)
ClicksCompose ==
    [][/\ \A id \in ProductIds, change \in QuantityChanges :
            (HasSession /\ QuantityClick("basket", id, change)) =>
                /\ Qty(cartItems'["basket"], id) = Qty(cartItems["basket"], id) + change
                /\ ClickedBefore("basket", id) =>
                      Qty(cartItems'["basket"], id) = lastOp.q + change
       /\ \A id \in ProductIds, change \in QuantityChanges :
            LocalQuantityClick(id, change) =>
                Qty(items', id) = Qty(items, id) + change]_vars

\* P1 stood at 1; two + clicks later it stands at 3, with the sync calls of
\* both clicks still pending.
TwoPlusClicks ==
    /\ lastOp = [op |-> "update", inst |-> "basket", id |-> "P1", q |-> 3]
    /\ cartItems["basket"] = <<LineItem("P1", 3)>>
    /\ syncs = <<"update", "update">>

(* C29: for one useCart.addToCart call the add-to-cart POST is sent at most *)
(* once, and the backend raises the product's quantity by at most 1, also   *)
(* when an attempt times out.                                               *)
PostSentOnce == fetchCount <= 1 /\ RemoteRaise <= 1

(* C30: a request answered 401 triggers at most one token-refresh request   *)
(* and is re-sent at most once, so that the chain of refresh and retry      *)
(* requests ends whatever the backend answers, a refresh endpoint answering *)
(* 401 while a refresh token is stored included.                            *)
RefreshOnceResendOnce ==
    /\ authApi.refreshes <= 1
    /\ authApi.resends <= 1
    /\ Len(authApi.answers) <= 3

\* ------------------------------------------------------------------------
\* Totals
\* ------------------------------------------------------------------------
\* A JavaScript number: an integer amount or NaN.
Num(v) == [nan |-> FALSE, v |-> v]

NaN == [nan |-> TRUE, v |-> 0]

Plus(a, b) == IF a.nan \/ b.nan THEN NaN ELSE Num(a.v + b.v)

\* item[field] * item.quantity; a field the item does not have reads as
\* undefined and the product is NaN.
TimesQuantity(item, field) ==
    IF field \in DOMAIN item THEN Num(item[field] * item.quantity) ELSE NaN

\* items.reduce((total, item) => total + (item[field] * item.quantity), 0)
RECURSIVE ReduceAmount(_, _, _, _)
ReduceAmount(list, field, k, total) ==
    IF k > Len(list) THEN total
    ELSE ReduceAmount(list, field, k + 1, Plus(total, TimesQuantity(list[k], field)))

\* items.reduce((total, item) => total + item.quantity, 0)
RECURSIVE ReduceQuantity(_, _, _)
ReduceQuantity(list, k, total) ==
    IF k > Len(list) THEN total ELSE ReduceQuantity(list, k + 1, total + list[k].quantity)

\* Number.prototype.toFixed(2) of an amount in hundredths: the digits before
\* and after the decimal point.
ToFixed2(n) == [nan |-> n.nan, whole |-> n.v \div 100, decimals |-> n.v % 100]

CalculateBasketTotals(list) ==
    LET subtotal == ReduceAmount(list, "mrpPrice", 1, Num(0))
        deliveryFee == Num(0)
    IN  [subtotal |-> subtotal,
         totalItems |-> ReduceQuantity(list, 1, 0),
         deliveryFee |-> deliveryFee,
         total |-> Plus(subtotal, deliveryFee)]

CalculateTotal(list) == ToFixed2(ReduceAmount(list, "price", 1, Num(0)))

GetTotalItems(list) == ReduceQuantity(list, 1, 0)

\* The sum of price x quantity over the line items.
RECURSIVE SumOfLines(_)
SumOfLines(list) ==
    IF list = <<>> THEN 0 ELSE Head(list).price * Head(list).quantity + SumOfLines(Tail(list))

RECURSIVE CountOfLines(_)
CountOfLines(list) ==
    IF list = <<>> THEN 0 ELSE Head(list).quantity + CountOfLines(Tail(list))

(* C12: in every basket state the totals read from it are subtotal = sum of *)
(* price x quantity, itemCount = sum of quantities, deliveryFee = 0 and     *)
(* total = subtotal + deliveryFee: calculateBasketTotals on useCart's       *)
(* cartItems, calculateTotal / getTotalItems on GroceryBasket's items.      *)
TotalsConsistent ==
    /\ \A i \in CartInstances :
          LET t == CalculateBasketTotals(cartItems[i])
          IN  /\ t.subtotal = Num(SumOfLines(cartItems[i]))
              /\ t.totalItems = CountOfLines(cartItems[i])
              /\ t.deliveryFee = Num(0)
              /\ t.total = Plus(t.subtotal, t.deliveryFee)
    /\ CalculateTotal(items) = ToFixed2(Num(SumOfLines(items)))
    /\ GetTotalItems(items) = CountOfLines(items)

\* ------------------------------------------------------------------------
\* Properties of searchByBarcode
\* ------------------------------------------------------------------------
\* What the search is to return from result list ids for barcode b: the
\* result with productId b if there is one, else the first, else null.
PreferredResult(ids, b, p) ==
    IF \E k \in 1..Len(ids) : ids[k] = b THEN p.productId = b
    ELSE IF Len(ids) > 0 THEN p.productId = ids[1]
    ELSE p = NoProduct

(* C19: searchByBarcode returns the by-id product when the by-id lookup     *)
(* succeeds; when the by-id lookup fails with a network error or not-found  *)
(* it runs the catalog search with the barcode as query and returns the     *)
(* result whose productId is the barcode, else the first result, else null  *)
(* (null too when the search fails); it never rejects.                      *)
ByIdThenSearch ==
    /\ lookup.pc \in {"idle", "byId", "search", "returned"}
    /\ lookup.byId \in {"network", "notfound"} =>
          /\ lookup.searched
          /\ lookup.query = [hasSearch |-> TRUE, search |-> lookup.arg.value]
    /\ (lookup.pc = "returned" /\ lookup.byId = "resolved") =>
          /\ lookup.product = lookup.byIdData
          /\ ~lookup.searched
    /\ (lookup.pc = "returned" /\ lookup.byId \in {"network", "notfound"}) =>
          IF lookup.req.phase = "resolved"
          THEN PreferredResult(lookup.ids, lookup.arg.value, lookup.product)
          ELSE lookup.product = NoProduct

\* The by-id lookup of P1 reported not-found and the search returned P2, P1:
\* the call returned P1.
ExactMatchPreferred ==
    /\ lookup.pc = "returned"
    /\ lookup.byId = "notfound"
    /\ lookup.arg = StringArg("P1")
    /\ lookup.ids = <<"P2", "P1">>
    /\ lookup.product.productId = "P1"

(* C20: searchByBarcode called with an invalid barcode (an empty string or  *)
(* a value that is not a string) fails its validation before any network   *)
(* call: no HTTP request is issued and no product is returned.              *)
InvalidBarcodeStopsEarly ==
    (lookup.pc # "idle" /\ ~ValidArg(lookup.arg)) =>
        /\ lookup.fetches = 0
        /\ ~lookup.searched
        /\ lookup.product = NoProduct

AllBaskets == Baskets \cup {"old"}

ItemsOf(b) == IF b = "old" THEN oldItems ELSE BasketOf(b)

(* C11: in every basket implementation (useCart's cartItems, GroceryBasket's *)
(* own items, the earlier GroceryBasket's items), after any sequence of     *)
(* adds, quantity changes, removals and clears, every line item present has *)
(* a quantity of at least 1.                                                *)
QuantityAtLeastOne ==
    \A b \in AllBaskets : \A k \in 1..Len(ItemsOf(b)) : ItemsOf(b)[k].quantity >= 1

\* updateQuantity(P1, 0) has just removed P1 from a useCart basket, and the
\* two other baskets hold items.
DecrementedToAbsent ==
    /\ lastOp = [op |-> "update", inst |-> "basket", id |-> "P1", q |-> 0]
    /\ cartItems["basket"] = <<LineItem("P2", 2)>>
    /\ items = <<LineItem("P1", 1)>>
    /\ oldItems = <<LineItem("P2", 2)>>

\* ------------------------------------------------------------------------
\* Properties of QRScanner
\* ------------------------------------------------------------------------
Loops == 1..MaxStarts

InLookup(s) == runs[s].pc \in {"byId", "search"}

\* Each entry of the recently-seen set stands for one processProductScan call.
OneResolutionPerEntry ==
    \A b \in Barcodes :
        resolutions[b] = expiries[b] + (IF b \in scannedProducts THEN 1 ELSE 0)

DetectionStep ==
    \A s \in Loops, b \in Barcodes :
        DetectSettle(s, b) =>
            IF b \in scannedProducts
            THEN /\ UNCHANGED <<resolutions, status, scannedProducts>>
                 /\ ~InLookup(s)'
            ELSE /\ resolutions' = [resolutions EXCEPT ![b] = @ + 1]
                 /\ InLookup(s)'
                 /\ runs'[s].b = b

(* C1: a detection of barcode b while b is in the recently-seen set starts  *)
(* no product resolution and leaves the status as it is, so that each entry *)
(* of the set stands for exactly one resolution attempt however often b is  *)
(* detected while it is there; a detection of b once its entry has been     *)
(* removed starts a new resolution attempt.                                 *)
DedupWithinCooldown == [][DetectionStep]_vars /\ []OneResolutionPerEntry

\* P1 was resolved, its entry removed, it was resolved again, and a further
\* detection of it has just been skipped.
SkippedAfterRescan ==
    /\ resolutions["P1"] = 2
    /\ expiries["P1"] = 1
    /\ runs[1].pc = "raf" /\ runs[1].path = "skipped" /\ runs[1].b = "P1"

(* C17: no two resolutions of the same barcode are ever in flight, and a    *)
(* barcode whose resolution is in flight is in the recently-seen set (it is *)
(* put there before the resolution starts), also when it is detected again  *)
(* while the resolution is pending and after the scanner was stopped and    *)
(* started again.                                                           *)
OneInFlightPerBarcode ==
    /\ \A s, t \in DOMAIN runs :
          (InLookup(s) /\ InLookup(t) /\ runs[s].b = runs[t].b) => s = t
    /\ \A s \in DOMAIN runs : InLookup(s) => runs[s].b \in scannedProducts

\* The scanner was stopped and started again; the first loop is resolving P1
\* and the second loop has just skipped a detection of P1.
SkippedInSecondLoop ==
    /\ InLookup(1) /\ runs[1].b = "P1"
    /\ runs[2].pc = "raf" /\ runs[2].path = "skipped" /\ runs[2].b = "P1"

\* Every entry of the recently-seen set has its processing under way or its
\* removal scheduled; a barcode being processed is in the set.
EntryBacked ==
    /\ \A b \in scannedProducts :
          \/ \E s \in DOMAIN runs : InLookup(s) /\ runs[s].b = b
          \/ timers[b] > 0
    /\ \A s \in DOMAIN runs : InLookup(s) => runs[s].b \in scannedProducts

(* C21: every barcode added to the recently-seen set is eventually removed  *)
(* from it, whatever its resolution ended with (added, not found, expired,  *)
(* out of stock) and also when the scanner is stopped meanwhile; it is not  *)
(* removed before its processing has ended; the set holds only barcodes     *)
(* whose processing or cooldown is under way.                               *)
EntriesExpire ==
    /\ []EntryBacked
    /\ \A b \in Barcodes : (b \in scannedProducts) ~> (b \notin scannedProducts)

\* P1 was not found, the scanner was stopped meanwhile, and the timer has
\* removed P1 from the set.
RemovedAfterStop ==
    /\ ~scanningRef
    /\ runs[1].pc = "done" /\ runs[1].b = "P1" /\ runs[1].path = "search"
    /\ expiries["P1"] = 1
    /\ "P1" \notin scannedProducts

(* C22: the removal of a barcode from the recently-seen set is scheduled at *)
(* detection, when the barcode is added and before its processing ends, so  *)
(* that the cooldown runs from detection: while a barcode is being          *)
(* processed its removal timer is already set.                              *)
RemovalScheduledAtDetection ==
    \A s \in DOMAIN runs : InLookup(s) => timers[runs[s].b] > 0

\* Loop s is in a scanFrame cycle or between two cycles.
Cycling(s) == runs[s].pc \in {"grab", "detect", "byId", "search", "raf"}

\* The step in which a scanFrame call of loop s that awaited grabFrame or
\* detect ends without a barcode to process (nothing seen, a barcode skipped,
\* or a rejection caught).
FrameEnds(s) == runs[s].pc \in {"grab", "detect"} /\ runs'[s].pc \in {"raf", "done"}

(* C23: while scanning is on, a frame whose grabFrame or detect throws does *)
(* not end the sampling loop: the error is swallowed (no status change) and *)
(* the next scanFrame cycle is requested; a loop ends only when scanning    *)
(* has been switched off.                                                   *)
LoopSurvivesBadFrame ==
    [][\A s \in DOMAIN runs :
          /\ FrameEnds(s) =>
                /\ UNCHANGED <<status, isScanning, scanningRef, isLoading>>
                /\ scanningRef => runs'[s].pc = "raf"
          /\ (Cycling(s) /\ ~Cycling(s)') => ~scanningRef]_vars

\* The first loop's track was stopped, scanning is on again, and the first
\* loop, whose grabFrame can only reject, is still requesting cycles.
DeadTrackLoopCycles ==
    /\ scanningRef
    /\ runs[1].pc = "raf"
    /\ runs[1].stream \notin liveTracks
    /\ runs[2].pc = "grab"

\* The loops that are in a scanFrame cycle or have the next one requested.
ActiveLoops == {s \in DOMAIN runs : Cycling(s)}

(* C27: at any time at most one frame-sampling loop is active, also when    *)
(* the scanner is stopped and started again while a grabFrame, a detect or  *)
(* a product resolution of the previous loop is pending.                    *)
OneSamplingLoop == scanningRef => Cardinality(ActiveLoops) <= 1

\* The step in which the getUserMedia call of start s is rejected and the
\* catch of startScanner runs.
CameraDenied(s) ==
    mounted = "yes" /\ runs[s].pc = "getUserMedia" /\ runs'[s].pc = "done"

(* C24: when the camera request of startScanner is rejected, startScanner   *)
(* ends without throwing and leaves an error status, isScanning = false,    *)
(* isLoading = false and no camera stream held (the button is then enabled  *)
(* for another start).                                                      *)
DeniedLeavesClean ==
    [][\A s \in DOMAIN runs :
          CameraDenied(s) =>
              /\ status' = St("CAMERA_ERROR", NULL, "error")
              /\ ~isScanning' /\ ~isLoading' /\ ~scanningRef'
              /\ CanClick'
              /\ srcObject' = 0 /\ liveTracks' = {}]_vars

(* C14: at most one MediaStream obtained by startScanner is live at any      *)
(* moment, whatever the sequence of starts and stops, a start whose play()  *)
(* rejects after the camera was granted included.                           *)
AtMostOneLiveStream == Cardinality(liveTracks) <= 1

\* Nothing startScanner or scanFrame started is still pending.
CameraQuiet == \A s \in DOMAIN runs : runs[s].pc \in {"idle", "done"}

(* C15: after the QRScanner is torn down no camera track remains live,      *)
(* whatever startScanner was doing at the teardown (getUserMedia pending    *)
(* included); judged once everything the component started has settled.    *)
TeardownStopsCamera == (mounted = "gone" /\ CameraQuiet) => liveTracks = {}

(* C16: in a browser without BarcodeDetector the status is the 'not         *)
(* supported' error in every state in which the scanner is mounted, and     *)
(* getUserMedia is never called.                                            *)
UnsupportedStaysOff ==
    ~window.BarcodeDetector =>
        /\ mounted = "yes" => status = St("NOT_SUPPORTED", NULL, "error")
        /\ \A s \in DOMAIN runs : runs[s].pc = "idle"
        /\ liveTracks = {}

\* The scanner is mounted in a browser without BarcodeDetector, effects done.
UnsupportedMounted ==
    /\ ~window.BarcodeDetector
    /\ mounted = "yes"
    /\ authInit
    /\ ~isLoading
    /\ status = St("NOT_SUPPORTED", NULL, "error")

\* The step in which the processProductScan of loop s returns.
ScanEnds(s) == InLookup(s) /\ ~InLookup(s)'

\* The product searchByBarcode returned to the processProductScan that ends
\* in this step; NoProduct for null.
Returned(s) == runs'[s].product

ExpiryInPast(p) == p.hasExpiry /\ p.expiryDate < Now
StockZero(p) == p.hasStock /\ p.stock = 0
StockAbsent(p) == ~p.hasStock
StockPositive(p) == p.hasStock /\ p.stock > 0

\* No basket is written to and no cart call is made.
BasketsUntouched == UNCHANGED <<cartItems, items, syncs, lastOp>>

\* The product is handed to the basket: addToCart(product) of the scanner's
\* useCart, or onScan(product) into GroceryBasket's handleProductScanned.
PassedToBasket(p) ==
    IF version = "hook"
    THEN /\ lastOp' = [op |-> "add", inst |-> "scanner", id |-> p.productId, q |-> 1]
         /\ UNCHANGED items
    ELSE /\ items' = ScannedInto(items, p.productId)
         /\ UNCHANGED <<cartItems, syncs, lastOp, settled>>

\* The status that names product p as rejected.
Rejected(p, msg) == St(msg, p.productId, "error")

\* The step in which stopScanner runs.
Stops == isScanning /\ ~isScanning'

ReceivingBasket == IF version = "hook" THEN cartItems["scanner"] ELSE items

(* C28: whenever a scan ends with the success status, the basket that       *)
(* receives scans holds a line item for the scanned product, in a guest     *)
(* session and in a logged-in one.                                          *)
SuccessMeansInBasket ==
    [][\A s \in DOMAIN runs :
          (ScanEnds(s) /\ status'.msg = "ITEM_ADDED") =>
              HasItem(ReceivingBasket', Returned(s).productId)]_vars

(* C5: when the product searchByBarcode returned, through the by-id lookup  *)
(* or through the fallback search, has an expiryDate in the past or a stock *)
(* of 0, processProductScan makes no basket mutation and sets an error      *)
(* status that names the product as expired or as out of stock.             *)
AvailabilityGate ==
    [][\A s \in Loops :
          ScanEnds(s) /\ (ExpiryInPast(Returned(s)) \/ StockZero(Returned(s))) =>
              /\ BasketsUntouched
              /\ status' = Rejected(Returned(s), IF ExpiryInPast(Returned(s))
                                                 THEN "EXPIRED" ELSE "OUT_OF_STOCK")]_vars

\* The fallback search has just returned an expired P1 that is in stock: the
\* status names it as expired and no basket holds it.
ExpiredRejected ==
    /\ runs[1].pc = "raf" /\ runs[1].path = "search"
    /\ runs[1].product =
          [productId |-> "P1", hasExpiry |-> TRUE, expiryDate |-> Now - 1,
           hasStock |-> TRUE, stock |-> 1]
    /\ status = St("EXPIRED", "P1", "error")
    /\ items = <<>> /\ cartItems["scanner"] = <<>>

(* C6, as stated: a resolved product that is not expired is available when  *)
(* its stock is absent or positive (it is passed to the basket, the status  *)
(* reports success) and is out of stock only when its stock is 0.           *)
AbsentStockAvailable ==
    [][\A s \in Loops :
          ScanEnds(s) /\ Returned(s) # NoProduct /\ ~ExpiryInPast(Returned(s)) =>
              IF StockAbsent(Returned(s)) \/ StockPositive(Returned(s))
              THEN PassedToBasket(Returned(s)) /\ status'.msg = "ITEM_ADDED"
              ELSE BasketsUntouched /\ status'.msg = "OUT_OF_STOCK"]_vars

(* C6, as the code has it: a resolved product that is not expired is        *)
(* available only when its stock is present and positive; with the stock    *)
(* absent, as with a stock of 0, nothing is passed to the basket and the    *)
(* status names the product as out of stock.                                *)
AbsentStockUnavailable ==
    [][\A s \in Loops :
          ScanEnds(s) /\ Returned(s) # NoProduct /\ ~ExpiryInPast(Returned(s)) =>
              IF StockPositive(Returned(s))
              THEN /\ PassedToBasket(Returned(s))
                   /\ status'.msg = "ITEM_ADDED" /\ status'.type = "success"
              ELSE /\ BasketsUntouched
                   /\ status' = Rejected(Returned(s), "OUT_OF_STOCK")]_vars

\* The by-id lookup has just returned P1 with no stock field and no expiry
\* date: reported out of stock, in no basket.
AbsentStockRejected ==
    /\ runs[1].pc = "raf" /\ runs[1].path = "byId"
    /\ runs[1].product =
          [productId |-> "P1", hasExpiry |-> FALSE, expiryDate |-> Now,
           hasStock |-> FALSE, stock |-> 0]
    /\ status = St("OUT_OF_STOCK", "P1", "error")
    /\ items = <<>> /\ cartItems["scanner"] = <<>>

(* C9: a scan whose by-id lookup was answered 500 on every attempt has made *)
(* exactly RETRY_ATTEMPTS fetches when it ends, ends with the network error *)
(* status, and leaves the baskets as they were.                             *)
ServerErrorSurfaced ==
    [][\A s \in Loops :
          ScanEnds(s) /\ runs'[s].byId500 =>
              /\ runs'[s].fetches = RETRY_ATTEMPTS
              /\ status' = St("NETWORK_ERROR", NULL, "error")
              /\ UNCHANGED <<cartItems, items>>]_vars

====
